---- MODULE Spec2Model ----
(***************************************************************************)
(* A model of the chat session of app/chat/chat.py (Conversation and       *)
(* ChatSession) and of the REST plugin of app/chat/plugins/callapi.py.     *)
(*                                                                         *)
(* Texts are sequences of string tokens: a literal is one token, a         *)
(* formatted text (an f-string, json.dumps) is the literal's token         *)
(* followed by the tokens of what is formatted into it.  So a conversion   *)
(* is modelled by what it produces, and two texts are equal exactly when   *)
(* the strings the program builds are equal.                               *)
(***************************************************************************)
EXTENDS Integers, Sequences, FiniteSets, TLC

VARIABLES
    log,          \* Conversation.conversation_history of the session
    plugins,      \* ChatSession.plugins: a dict, kept in insertion order
    pc,           \* where the session's single thread of control is
    frame,        \* the function that issued the outstanding completion request
    request,      \* the messages and functions of the latest completion request
    response,     \* what _chat_completion_request returned
    func_call,    \* the func_call argument of the running _execute_plugin
    arguments,    \* the parsed arguments plugin.execute was called with
    user_message, \* the argument of the running get_chatgpt_response
    result,       \* what the latest get_chatgpt_response returned
    \* history variables: they record what happened and never guide the program
    log0,         \* the log when the latest get_chatgpt_response was called
    submits,      \* number of get_chatgpt_response calls so far
    nContent,     \* number of those that ended in a final content reply
    cause,        \* how the latest get_chatgpt_response ended
    errs,         \* the error conditions met during the latest submit
    prevErrs,     \* the error conditions met during the submit before it
    pending,      \* the latest tool call no function message has answered yet
    execs,        \* plugin.execute calls since the latest tool-call reply
    https,        \* HTTP requests sent since the latest tool-call reply
    lastReg,      \* the plugin the latest register_plugin call was given
    outstanding,  \* the calls begun and not yet returned, by kind
    lastExec,     \* the plugin.execute call that has just ended
    \* a second session: the variables above are those of the session whose
    \* thread is taking steps, the other session waits in the ones below
    cur,          \* the session whose thread is running
    parked,       \* the fields of the session that waits
    lists,        \* the conversation_history list objects, by identity
    dicts         \* the plugins dict objects, by identity

vars == <<log, plugins, pc, frame, request, response, func_call, arguments,
          user_message, result, log0, submits, nContent, cause, errs, prevErrs,
          pending, execs, https, lastReg, outstanding, lastExec,
          cur, parked, lists, dicts>>

\* what belongs to the other session and to the objects it holds
others == <<cur, parked, lists, dicts>>

----------------------------------------------------------------------------
(* Bounds of the model *)

\* get_chatgpt_response calls explored per session
MaxSubmits == 2

\* get_chatgpt_response calls explored per session when two sessions interleave
MaxSessionSubmits == 1

----------------------------------------------------------------------------
(* Data *)

UserTexts == {<<"List all industries">>, <<"Delete industry 5">>}
Contents == {<<"Here are the industries">>, <<"I don't know">>}

\* Conversation.__init__: the four messages the history starts with
Msg(role, content) == [role |-> role, content |-> content]

SeedMessages ==
    << Msg("system", <<"SYSTEM_PROMPT">>),
       Msg("user", <<"You have access to the following APIs: ", "json", "available_apis">>),
       Msg("user", <<"If a function requires an identifier, list all first">>),
       Msg("user", <<"If you were asked to create, update, or delete a user">>) >>

\* Conversation.add_message
add_message(history, role, content) == Append(history, Msg(role, content))

\* the slice history[n:]
SliceFrom(history, n) == SubSeq(history, n + 1, Len(history))

\* get_messages as if only the system prompt were to be skipped
get_messages_skip_one(history) ==
    IF Len(history) = 1 THEN << >> ELSE SliceFrom(history, 1)

\* ChatSession.get_messages
get_messages(history) ==
    IF Len(history) = 1 THEN << >> ELSE SliceFrom(history, 4)

----------------------------------------------------------------------------
(* The plugin registry *)

\* the CallAPIPlugin objects a caller may register
PluginObjects == {[class |-> "CallAPIPlugin", id |-> i] : i \in {1, 2}}

\* CallAPIPlugin.get_name
get_name(plugin) == "call_rest_api"

\* CallAPIPlugin.get_description
get_description(plugin) == <<"Sends a request to the REST API">>

\* the methods CallAPIPlugin declares and serves
Methods == {"GET", "POST", "PUT", "DELETE"}

\* CallAPIPlugin.get_parameters
get_parameters(plugin) ==
    [type |-> "object", properties |-> {"method", "url", "body"},
     enum |-> Methods, required |-> {"method", "url"}]

\* the positions of the dict's entry for a name (none or one)
IndexOf(registry, name) == {i \in 1..Len(registry) : registry[i].name = name}

\* func_name in self.plugins
Registered(registry, name) == IndexOf(registry, name) # {}

\* self.plugins[func_name]
Lookup(registry, name) == registry[CHOOSE i \in IndexOf(registry, name) : TRUE].plugin

\* register_plugin as if a name already registered kept its plugin (setdefault)
register_plugin_keep_first(registry, plugin) ==
    IF Registered(registry, get_name(plugin))
    THEN registry
    ELSE Append(registry, [name |-> get_name(plugin), plugin |-> plugin])

\* ChatSession.register_plugin: self.plugins[plugin.get_name()] = plugin
register_plugin(registry, plugin) ==
    IF Registered(registry, get_name(plugin))
    THEN [i \in 1..Len(registry) |->
             IF registry[i].name = get_name(plugin)
             THEN [name |-> registry[i].name, plugin |-> plugin]
             ELSE registry[i]]
    ELSE Append(registry, [name |-> get_name(plugin), plugin |-> plugin])

\* ChatSession._plugin_to_function
plugin_to_function(plugin) ==
    [name |-> get_name(plugin), description |-> get_description(plugin),
     parameters |-> get_parameters(plugin)]

\* _get_functions as if no function were passed to the service
get_functions_none(registry) == << >>

\* ChatSession._get_functions
get_functions(registry) ==
    [i \in 1..Len(registry) |-> plugin_to_function(registry[i].plugin)]

----------------------------------------------------------------------------
(* What the completion service may answer *)

\* the tool names a reply may carry: a registered one and an unregistered one
ToolNames == {"call_rest_api", "delete_industry"}

\* the raw argument texts a tool-call reply may carry
RawArguments ==
    { "{\"method\": \"GET\", \"url\": \"/industry?page=1\"}",
      "{\"method\": \"POST\", \"url\": \"/industry\", \"body\": \"{}\"}",
      "{\"method\": \"PUT\", \"url\": \"/industry/5\", \"body\": \"{}\"}",
      "{\"method\": \"DELETE\", \"url\": \"/industry/5\"}",
      "{\"method\": \"PATCH\", \"url\": \"/industry/5\"}",
      "{\"method\": \"GET\"}",
      "[1]",
      "{\"method\": " }

\* json.loads of a raw argument text: the value, or the JSONDecodeError it raises
json_loads(raw) ==
    CASE raw = "{\"method\": \"GET\", \"url\": \"/industry?page=1\"}" ->
            [raised |-> FALSE, isdict |-> TRUE,
             value |-> [method |-> "GET", url |-> "/industry?page=1"]]
      [] raw = "{\"method\": \"POST\", \"url\": \"/industry\", \"body\": \"{}\"}" ->
            [raised |-> FALSE, isdict |-> TRUE,
             value |-> [method |-> "POST", url |-> "/industry", body |-> "{}"]]
      [] raw = "{\"method\": \"PUT\", \"url\": \"/industry/5\", \"body\": \"{}\"}" ->
            [raised |-> FALSE, isdict |-> TRUE,
             value |-> [method |-> "PUT", url |-> "/industry/5", body |-> "{}"]]
      [] raw = "{\"method\": \"DELETE\", \"url\": \"/industry/5\"}" ->
            [raised |-> FALSE, isdict |-> TRUE,
             value |-> [method |-> "DELETE", url |-> "/industry/5"]]
      [] raw = "{\"method\": \"PATCH\", \"url\": \"/industry/5\"}" ->
            [raised |-> FALSE, isdict |-> TRUE,
             value |-> [method |-> "PATCH", url |-> "/industry/5"]]
      [] raw = "{\"method\": \"GET\"}" ->
            [raised |-> FALSE, isdict |-> TRUE, value |-> [method |-> "GET"]]
      [] raw = "[1]" ->
            [raised |-> FALSE, isdict |-> FALSE, value |-> [list |-> "1"]]
      [] OTHER ->
            [raised |-> TRUE, isdict |-> FALSE, value |-> [error |-> "JSONDecodeError"]]

\* json.dumps of a value: the encoded text
json_dumps(value) == <<"json">> \o value

\* no function_call in a message; no func_call being resolved
NoCall == [name |-> "", arguments |-> ""]

\* no parsed arguments: no plugin.execute is running
NoArguments == [none |-> "none"]

\* response["choices"][0]["message"] of a content reply
ContentReply(text) == [type |-> "message", content |-> text, function_call |-> NoCall]

\* response["choices"][0]["message"] of a tool-call reply (its content is null)
ToolCallReply(name, raw) ==
    [type |-> "message", content |-> <<"None">>,
     function_call |-> [name |-> name, arguments |-> raw]]

\* the exception object _chat_completion_request returns when the call fails
ExceptionValue == [type |-> "exception", content |-> <<"None">>, function_call |-> NoCall]

\* the messages openai.ChatCompletion.create may deliver
Replies ==
    {ContentReply(t) : t \in Contents}
      \cup {ToolCallReply(n, a) : n \in ToolNames, a \in RawArguments}

\* no response yet
NoResponse == [type |-> "none", content |-> <<"None">>, function_call |-> NoCall]

\* x.get(key) of a returned value: an exception object has no get (AttributeError)
HasGet(value) == value.type = "message"

\* the truth value of message.get("function_call")
HasFunctionCall(message) == message.function_call # NoCall

\* str(func_call): the object's text, which holds its name and its arguments
str_func_call(call) == <<call.name, call.arguments>>

----------------------------------------------------------------------------
(* The REST plugin *)

\* what the REST endpoint may do with one HTTP request
HttpOutcomes ==
    { [raised |-> FALSE, status |-> 200, isjson |-> TRUE,  body |-> <<"[industries]">>],
      [raised |-> FALSE, status |-> 200, isjson |-> FALSE, body |-> <<"<html>">>],
      [raised |-> FALSE, status |-> 404, isjson |-> TRUE,  body |-> <<"{detail}">>],
      [raised |-> FALSE, status |-> 500, isjson |-> FALSE, body |-> <<"<html>">>],
      [raised |-> TRUE,  status |-> 0,   isjson |-> FALSE, body |-> <<"ConnectionError">>] }

\* execute raised: nothing is returned
Raised(exception, sent) == [raised |-> TRUE, value |-> <<exception>>, sent |-> sent]

\* execute returned a value
Returned(value, sent) == [raised |-> FALSE, value |-> value, sent |-> sent]

\* lines 66-69 of CallAPIPlugin.execute: the value made of the HTTP response
response_value(http) ==
    IF http.status = 200
    THEN IF http.isjson
         THEN Returned(<<"dict", "content">> \o json_dumps(http.body), 1)
         ELSE Raised("JSONDecodeError", 1)
    ELSE Returned(<<"Status code: ", ToString(http.status)>>, 1)

\* plugin.execute(**kwargs) of a CallAPIPlugin with the endpoint answering http:
\* what it returns or raises, and the number of HTTP requests it sent
execute(plugin, kwargs, http) ==
    IF "url" \notin DOMAIN kwargs THEN Raised("KeyError", 0)
    ELSE IF "method" \notin DOMAIN kwargs THEN Raised("KeyError", 0)
    ELSE IF kwargs.method \in Methods
         THEN IF http.raised THEN Raised("ConnectionError", 1)
              ELSE response_value(http)
         ELSE Raised("ValueError", 0)

\* line 185 of _execute_plugin: the result put in place of an unregistered plugin's
no_plugin_response(call) ==
    <<"dict", "error", "No plugin found with name ">> \o str_func_call(call)

\* _execute_plugin as if, in a chain, the messages of the request before were
\* extended in place of a fresh copy of the history
function_messages_accumulate(history, plugin_response, func_name) ==
    Append(IF frame = "_execute_plugin" THEN request.messages ELSE history,
           [role |-> "function", content |-> json_dumps(plugin_response),
            name |-> func_name])

\* lines 193-200 of _execute_plugin: a copy of the history plus the function message
function_messages(history, plugin_response, func_name) ==
    Append(history, [role |-> "function", content |-> json_dumps(plugin_response),
                     name |-> func_name])

----------------------------------------------------------------------------
(* The session *)

(***************************************************************************)
(* One thread runs a session.  pc is its position: "idle" between two      *)
(* submits, "request" while openai.ChatCompletion.create is outstanding,   *)
(* "returned" when _chat_completion_request has returned to its caller     *)
(* (frame), "resolve" at the entry of _execute_plugin and "execute" while  *)
(* plugin.execute runs.  _execute_plugin calls itself for every further    *)
(* tool call and each of its frames only hands the callee's value back, so *)
(* the depth of the recursion is not part of the state: the program keeps  *)
(* no count of it and tests no limit.                                      *)
(***************************************************************************)

\* no completion request outstanding
NoRequest == [messages |-> << >>, functions |-> << >>]

\* the text get_chatgpt_response returns from its except block (line 235)
SomethingWentWrong == <<"something went wrong">>

\* no call is outstanding
NoneOutstanding == [completion |-> 0, plugin |-> 0]

\* a call of the kind begins
Begin(kind) == [outstanding EXCEPT ![kind] = @ + 1]

\* a call of the kind returns
End(kind) == [outstanding EXCEPT ![kind] = @ - 1]

\* no plugin.execute call has just ended
NoExec == [ran |-> FALSE]

\* the two sessions
Sessions == {1, 2}

\* the session that is not s
Other(s) == CHOOSE t \in Sessions : t # s

\* Conversation.__init__ as if conversation_history were one list of the class,
\* as available_apis is
history_of_shared(session) == 1

\* Conversation.__init__, line 100: every Conversation makes a list of its own;
\* the identity of the list object a session's conversation holds
history_of(session) == session

\* ChatSession.__init__, line 133: every session makes a dict of its own
registry_of(session) == session

\* the fields of a session that ChatSession.__init__ has just made
NewSession ==
    [pc |-> "idle", frame |-> "none", request |-> NoRequest, response |-> NoResponse,
     func_call |-> NoCall, arguments |-> NoArguments, user_message |-> <<"None">>,
     result |-> <<"None">>, log0 |-> SeedMessages, submits |-> 0, nContent |-> 0,
     cause |-> "none", errs |-> {}, prevErrs |-> {}, pending |-> NoCall,
     execs |-> 0, https |-> 0, lastReg |-> [class |-> "CallAPIPlugin", id |-> 1],
     outstanding |-> NoneOutstanding, lastExec |-> NoExec]

\* ChatSession.__init__ and Conversation.__init__
Init ==
    /\ log = SeedMessages
    /\ plugins = register_plugin(<< >>, [class |-> "CallAPIPlugin", id |-> 1])
    /\ pc = "idle"
    /\ frame = "none"
    /\ request = NoRequest
    /\ response = NoResponse
    /\ func_call = NoCall
    /\ arguments = NoArguments
    /\ user_message = <<"None">>
    /\ result = <<"None">>
    /\ log0 = SeedMessages
    /\ submits = 0
    /\ nContent = 0
    /\ cause = "none"
    /\ errs = {}
    /\ prevErrs = {}
    /\ pending = NoCall
    /\ execs = 0
    /\ https = 0
    /\ lastReg = [class |-> "CallAPIPlugin", id |-> 1]
    /\ outstanding = NoneOutstanding
    /\ lastExec = NoExec
    /\ cur = 1
    /\ parked = NewSession
    /\ lists = [object \in Sessions |-> SeedMessages]
    /\ dicts = [object \in Sessions |->
                   register_plugin(<< >>, [class |-> "CallAPIPlugin", id |-> 1])]

\* the history variables that only a call of get_chatgpt_response changes
calls == <<log0, submits, prevErrs, user_message>>

\* a caller registers a plugin between two submits
RegisterPlugin(plugin) ==
    /\ pc = "idle"
    /\ UNCHANGED others
    /\ plugins' = register_plugin(plugins, plugin)
    /\ lastReg' = plugin
    /\ UNCHANGED <<log, pc, frame, request, response, func_call, arguments, result,
                   nContent, cause, errs, pending, execs, https, calls,
                   outstanding, lastExec>>

\* get_chatgpt_response, lines 218-223: the user message is appended and the
\* first completion request is issued with the history itself
Submit(text) ==
    /\ pc = "idle"
    /\ UNCHANGED others
    /\ submits < MaxSubmits
    /\ log' = add_message(log, "user", text)
    /\ request' = [messages |-> log', functions |-> get_functions(plugins)]
    /\ pc' = "request"
    /\ frame' = "get_chatgpt_response"
    /\ user_message' = text
    /\ log0' = log
    /\ submits' = submits + 1
    /\ prevErrs' = errs
    /\ errs' = {}
    /\ cause' = "running"
    /\ execs' = 0
    /\ https' = 0
    /\ response' = NoResponse
    /\ outstanding' = Begin("completion")
    /\ lastExec' = NoExec
    /\ UNCHANGED <<plugins, func_call, arguments, result, nContent, pending, lastReg>>

\* _chat_completion_request as if a failed call were answered with an empty message
completion_result_empty(delivered, failed) ==
    IF failed THEN ContentReply(<< >>) ELSE delivered

\* _chat_completion_request, lines 258 and 269: the message of the service's
\* answer, or the exception object when the call or the unpacking raised
completion_result(delivered, failed) ==
    IF failed THEN ExceptionValue ELSE delivered

\* _chat_completion_request, lines 245-269: the service delivers a message, or
\* the call raises and the exception object is returned in place of a message
chat_completion_request(delivered, failed) ==
    /\ pc = "request"
    /\ UNCHANGED others
    /\ response' = completion_result(delivered, failed)
    /\ errs' = IF failed THEN errs \cup {"transport"} ELSE errs
    /\ pc' = "returned"
    /\ outstanding' = End("completion")
    /\ lastExec' = NoExec
    /\ UNCHANGED <<log, plugins, frame, request, func_call, arguments, result,
                   nContent, cause, pending, execs, https, calls, lastReg>>

\* get_chatgpt_response as if its except block raised the exception again
ExceptReraise(kind) ==
    /\ pc' = "crashed"
    /\ cause' = kind
    /\ errs' = errs \cup {kind}
    /\ UNCHANGED <<log, plugins, frame, request, response, func_call, arguments,
                   result, nContent, pending, execs, calls, lastReg>>

\* get_chatgpt_response as if its except block took the user message back
ExceptRollback(kind) ==
    /\ log' = log0
    /\ result' = SomethingWentWrong
    /\ pc' = "idle"
    /\ frame' = "none"
    /\ request' = NoRequest
    /\ response' = NoResponse
    /\ func_call' = NoCall
    /\ arguments' = NoArguments
    /\ cause' = kind
    /\ errs' = errs \cup {kind}
    /\ UNCHANGED <<plugins, nContent, pending, execs, calls, lastReg>>

\* get_chatgpt_response, lines 233-235: the except block ends the submit
Except(kind) ==
    /\ result' = SomethingWentWrong
    /\ pc' = "idle"
    /\ frame' = "none"
    /\ request' = NoRequest
    /\ response' = NoResponse
    /\ func_call' = NoCall
    /\ arguments' = NoArguments
    /\ cause' = kind
    /\ errs' = errs \cup {kind}
    /\ UNCHANGED <<log, plugins, nContent, pending, execs, calls, lastReg>>

\* get_chatgpt_response, lines 231-232: the assistant message is appended and returned
Return(chatgpt_message) ==
    /\ log' = add_message(log, "assistant", chatgpt_message)
    /\ result' = chatgpt_message
    /\ pc' = "idle"
    /\ frame' = "none"
    /\ request' = NoRequest
    /\ response' = NoResponse
    /\ func_call' = NoCall
    /\ arguments' = NoArguments
    /\ cause' = "content"
    /\ nContent' = nContent + 1
    /\ UNCHANGED <<plugins, errs, pending, execs, https, calls, lastReg,
                   outstanding, lastExec>>

\* the call _execute_plugin(response.get("function_call"))
CallExecutePlugin ==
    /\ func_call' = response.function_call
    /\ pending' = response.function_call
    /\ pc' = "resolve"
    /\ execs' = 0
    /\ https' = 0
    /\ UNCHANGED <<log, plugins, frame, request, response, arguments, result,
                   nContent, cause, errs, calls, lastReg, outstanding, lastExec>>

\* what either caller does with the value _chat_completion_request returned
Dispatch ==
    IF ~HasGet(response)
    THEN Except("transport") /\ UNCHANGED <<https, outstanding, lastExec>>
    ELSE IF HasFunctionCall(response) THEN CallExecutePlugin
    ELSE Return(response.content)

\* get_chatgpt_response, lines 225-232
TopDispatch ==
    /\ pc = "returned"
    /\ UNCHANGED others
    /\ frame = "get_chatgpt_response"
    /\ Dispatch

\* _execute_plugin, lines 209-211, and the return through get_chatgpt_response
PluginDispatch ==
    /\ pc = "returned"
    /\ UNCHANGED others
    /\ frame = "_execute_plugin"
    /\ Dispatch

\* _execute_plugin as if the function message were appended to the history itself
ReissuePersist(plugin_response) ==
    /\ log' = function_messages(log, plugin_response, func_call.name)
    /\ request' = [messages |-> log', functions |-> get_functions(plugins)]
    /\ pc' = "request"
    /\ frame' = "_execute_plugin"
    /\ arguments' = NoArguments
    /\ response' = NoResponse
    /\ pending' = NoCall
    /\ UNCHANGED <<plugins, func_call, result, nContent, cause, calls, lastReg>>

\* _execute_plugin, lines 193-201: the completion request is issued again
Reissue(plugin_response) ==
    /\ request' = [messages |-> function_messages(log, plugin_response, func_call.name),
                   functions |-> get_functions(plugins)]
    /\ pc' = "request"
    /\ frame' = "_execute_plugin"
    /\ arguments' = NoArguments
    /\ response' = NoResponse
    /\ pending' = NoCall
    /\ UNCHANGED <<log, plugins, func_call, result, nContent, cause, calls, lastReg>>

\* _execute_plugin as if the plugin were started and not waited for: the
\* request is issued again while plugin.execute still runs
ResolveToolAsync ==
    /\ pc = "resolve"
    /\ UNCHANGED others
    /\ IF Registered(plugins, func_call.name)
       THEN LET parsed == json_loads(func_call.arguments) IN
            IF parsed.raised
            THEN Except("malformed") /\ UNCHANGED <<https, outstanding, lastExec>>
            ELSE IF ~parsed.isdict
            THEN Except("notmapping") /\ UNCHANGED <<https, outstanding, lastExec>>
            ELSE /\ Reissue(<<"None">>)
                 /\ execs' = execs + 1
                 /\ outstanding' = [completion |-> outstanding.completion + 1,
                                     plugin |-> outstanding.plugin + 1]
                 /\ UNCHANGED <<errs, https, lastExec>>
       ELSE /\ Reissue(no_plugin_response(func_call))
            /\ errs' = errs \cup {"unknown"}
            /\ outstanding' = Begin("completion")
            /\ UNCHANGED <<execs, https, lastExec>>

\* _execute_plugin as if the plugin were executed a second time
ResolveToolTwice ==
    /\ pc = "resolve"
    /\ UNCHANGED others
    /\ IF Registered(plugins, func_call.name)
       THEN LET parsed == json_loads(func_call.arguments) IN
            IF parsed.raised
            THEN Except("malformed") /\ UNCHANGED <<https, outstanding, lastExec>>
            ELSE IF ~parsed.isdict
            THEN Except("notmapping") /\ UNCHANGED <<https, outstanding, lastExec>>
            ELSE /\ arguments' = parsed.value
                 /\ pc' = "execute"
                 /\ execs' = execs + 2
                 /\ outstanding' = Begin("plugin")
                 /\ UNCHANGED <<log, plugins, frame, request, response, func_call,
                                result, nContent, cause, errs, pending, https, calls,
                                lastReg, lastExec>>
       ELSE /\ Reissue(no_plugin_response(func_call))
            /\ errs' = errs \cup {"unknown"}
            /\ outstanding' = Begin("completion")
            /\ UNCHANGED <<execs, https, lastExec>>

\* _execute_plugin, lines 177-185: the plugin is looked up and its arguments parsed
ResolveTool ==
    /\ pc = "resolve"
    /\ UNCHANGED others
    /\ IF Registered(plugins, func_call.name)
       THEN LET parsed == json_loads(func_call.arguments) IN
            IF parsed.raised
            THEN Except("malformed") /\ UNCHANGED <<https, outstanding, lastExec>>
            ELSE IF ~parsed.isdict
            THEN Except("notmapping") /\ UNCHANGED <<https, outstanding, lastExec>>
            ELSE /\ arguments' = parsed.value
                 /\ pc' = "execute"
                 /\ execs' = execs + 1
                 /\ outstanding' = Begin("plugin")
                 /\ UNCHANGED <<log, plugins, frame, request, response, func_call,
                                result, nContent, cause, errs, pending, https, calls,
                                lastReg, lastExec>>
       ELSE /\ Reissue(no_plugin_response(func_call))
            /\ errs' = errs \cup {"unknown"}
            /\ outstanding' = Begin("completion")
            /\ UNCHANGED <<execs, https, lastExec>>

\* plugin.execute(**arguments) runs against the endpoint and returns or raises
PluginReturn(http) ==
    /\ pc = "execute"
    /\ UNCHANGED others
    /\ LET r == execute(Lookup(plugins, func_call.name), arguments, http) IN
       /\ https' = https + r.sent
       /\ lastExec' = [ran |-> TRUE, kwargs |-> arguments, http |-> http, out |-> r]
       /\ IF r.raised
          THEN /\ Except("plugin")
               /\ outstanding' = End("plugin")
          ELSE /\ Reissue(r.value)
               /\ outstanding' = [completion |-> outstanding.completion + 1,
                                   plugin |-> outstanding.plugin - 1]
               /\ UNCHANGED <<errs, execs>>

Next ==
    \/ \E plugin \in PluginObjects : RegisterPlugin(plugin)
    \/ \E text \in UserTexts : Submit(text)
    \/ \E delivered \in Replies : chat_completion_request(delivered, FALSE)
    \/ \E delivered \in {NoResponse} : chat_completion_request(delivered, TRUE)
    \/ TopDispatch
    \/ PluginDispatch
    \/ ResolveTool
    \/ \E http \in HttpOutcomes : PluginReturn(http)

Spec == Init /\ [][Next]_vars

\* the session's thread keeps running while it has a step to take
FairSpec == Spec /\ WF_vars(Next)

----------------------------------------------------------------------------
(* Two sessions *)

(***************************************************************************)
(* Each session has a thread of its own and the threads interleave at any  *)
(* step.  Switch is the scheduler passing from one thread to the other:    *)
(* the running session's list and dict stay in the objects it holds, and   *)
(* the other session goes on with the objects that it holds.               *)
(***************************************************************************)

\* the fields of the running session
Fields ==
    [pc |-> pc, frame |-> frame, request |-> request, response |-> response,
     func_call |-> func_call, arguments |-> arguments, user_message |-> user_message,
     result |-> result, log0 |-> log0, submits |-> submits, nContent |-> nContent,
     cause |-> cause, errs |-> errs, prevErrs |-> prevErrs, pending |-> pending,
     execs |-> execs, https |-> https, lastReg |-> lastReg,
     outstanding |-> outstanding, lastExec |-> lastExec]

\* the thread of the other session is scheduled
Switch ==
    /\ cur' = Other(cur)
    /\ lists' = [lists EXCEPT ![history_of(cur)] = log]
    /\ dicts' = [dicts EXCEPT ![registry_of(cur)] = plugins]
    /\ log' = lists'[history_of(Other(cur))]
    /\ plugins' = dicts'[registry_of(Other(cur))]
    /\ parked' = Fields
    /\ pc' = parked.pc
    /\ frame' = parked.frame
    /\ request' = parked.request
    /\ response' = parked.response
    /\ func_call' = parked.func_call
    /\ arguments' = parked.arguments
    /\ user_message' = parked.user_message
    /\ result' = parked.result
    /\ log0' = parked.log0
    /\ submits' = parked.submits
    /\ nContent' = parked.nContent
    /\ cause' = parked.cause
    /\ errs' = parked.errs
    /\ prevErrs' = parked.prevErrs
    /\ pending' = parked.pending
    /\ execs' = parked.execs
    /\ https' = parked.https
    /\ lastReg' = parked.lastReg
    /\ outstanding' = parked.outstanding
    /\ lastExec' = parked.lastExec

\* what the two sessions are given while they interleave
TwoTexts == {<<"List all industries">>}
TwoReplies ==
    { ContentReply(<<"Here are the industries">>),
      ToolCallReply("call_rest_api", "{\"method\": \"GET\", \"url\": \"/industry?page=1\"}") }
TwoHttpOutcomes == {http \in HttpOutcomes : http.isjson}

TwoNext ==
    \/ \E plugin \in PluginObjects : RegisterPlugin(plugin)
    \/ \E text \in TwoTexts : submits < MaxSessionSubmits /\ Submit(text)
    \/ \E delivered \in TwoReplies : chat_completion_request(delivered, FALSE)
    \/ \E delivered \in {NoResponse} : chat_completion_request(delivered, TRUE)
    \/ TopDispatch
    \/ PluginDispatch
    \/ ResolveTool
    \/ \E http \in TwoHttpOutcomes : PluginReturn(http)
    \/ Switch

TwoSpec == Init /\ [][TwoNext]_vars

----------------------------------------------------------------------------
(* Properties *)

\* the last element of a non-empty sequence
Last(seq) == seq[Len(seq)]

\* s is a prefix of t
IsPrefix(s, t) == Len(s) <= Len(t) /\ SubSeq(t, 1, Len(s)) = s

\* the function messages of a message sequence
FunctionMessages(messages) ==
    {i \in 1..Len(messages) : messages[i].role = "function"}

\* the ways a submit ends in the degraded-service message
ErrorCauses == {"transport", "malformed", "notmapping", "plugin"}

\* the session is between two submits
Idle == pc = "idle"

\* C1: between submits the length of history() is twice the number of submits
\* that ended in a final content reply, whatever the number of tool-call
\* detours and of submits that ended in the degraded-service message, and
\* history() holds no preamble message.
C1_HistoryTwiceContentReplies ==
    Idle => /\ Len(get_messages(log)) = 2 * nContent
            /\ \A i \in 1..Len(get_messages(log)) :
                  get_messages(log)[i].role \in {"user", "assistant"}

\* C2: a tool call for a registered plugin whose arguments are not parseable
\* JSON does not end the submit: the next step re-issues a completion request
\* whose last message is the role=function message of a substituted error.
C2_MalformedArgumentsRecovered ==
    [][(/\ pc = "resolve"
        /\ Registered(plugins, func_call.name)
        /\ json_loads(func_call.arguments).raised)
       => (/\ pc' = "request"
           /\ Last(request'.messages).role = "function"
           /\ Last(request'.messages).name = func_call.name)]_vars

\* C3: whatever a plugin's execute does, raising included, the step that ends
\* it re-issues a completion request whose last message is the role=function
\* message of that tool: a plugin failure does not end the submit.
C3_PluginFailureRecovered ==
    [][pc = "execute"
       => (/\ pc' = "request"
           /\ Last(request'.messages).role = "function"
           /\ Last(request'.messages).name = func_call.name)]_vars

\* C4: within one submit a chain of tool-call replies always terminates: once
\* a tool call is being resolved, the submit eventually returns.
C4_ToolChainTerminates == (pc = "resolve") ~> Idle

\* C5: the request re-issued after a tool call naming an unregistered plugin
\* ends with the role=function message of that name whose content is the
\* encoded {"error": "No plugin found with name <name>"}, <name> being exactly
\* the requested tool name, and no plugin was executed.
C5_UnknownToolNamesTheTool ==
    (pc = "request" /\ frame = "_execute_plugin" /\ ~Registered(plugins, func_call.name))
    => /\ Last(request.messages) =
            [role |-> "function",
             content |-> json_dumps(<<"dict", "error", "No plugin found with name ",
                                      func_call.name>>),
             name |-> func_call.name]
       /\ execs = 0

\* C6: while a completion request is outstanding no tool-call reply is left
\* unanswered: a request that follows a tool-call reply carries exactly one
\* role=function message, named as the requested tool and, for a registered
\* plugin, made by exactly one execution of it.
C6_ToolCallAnsweredBeforeNextRequest ==
    pc = "request"
    => /\ pending = NoCall
       /\ frame = "_execute_plugin"
          => /\ Cardinality(FunctionMessages(request.messages)) = 1
             /\ Last(request.messages).role = "function"
             /\ Last(request.messages).name = func_call.name
             /\ Registered(plugins, func_call.name) => execs = 1

\* C7: a failed completion request, the first of a submit or a re-issued one,
\* is never taken for a content reply: the submit ends with the
\* degraded-service message, no assistant message is appended, and the
\* session is idle again (nothing escapes the submit).
C7_FailedRequestDegrades ==
    "transport" \in errs
    => \/ pc = "returned" /\ response = ExceptionValue
       \/ /\ Idle
          /\ result = SomethingWentWrong
          /\ cause = "transport"
          /\ log = add_message(log0, "user", user_message)

\* a failed re-issued request, after a plugin execution, ended the submit
C7_Witness == Idle /\ cause = "transport" /\ execs = 1 /\ "unknown" \notin errs

\* C8: every submit that met an error leaves the session idle, and in a submit
\* that follows one a content reply is processed normally: the submit returns
\* its text and the log is the earlier log plus the user and assistant messages.
C8_UsableAfterError ==
    [][/\ cause' \in ErrorCauses => pc' = "idle"
       /\ (/\ pc = "returned"
           /\ prevErrs # {}
           /\ HasGet(response)
           /\ ~HasFunctionCall(response))
          => /\ pc' = "idle"
             /\ result' = response.content
             /\ log' = log0 \o <<Msg("user", user_message),
                                 Msg("assistant", response.content)>>]_vars

\* a submit ended in content after a submit that met an unknown tool and then
\* malformed arguments
C8_Witness ==
    Idle /\ cause = "content" /\ {"unknown", "malformed"} \subseteq prevErrs

\* C9 as stated: after a submit that reached a content reply the only new
\* entry of history() is the assistant message.
C9_SoleNewEntry ==
    (Idle /\ cause = "content")
    => /\ result = Last(log).content
       /\ get_messages(log) = get_messages(log0) \o <<Msg("assistant", result)>>

\* C9 as amended: a submit that reaches a content reply, directly or after
\* tool-call detours, returns exactly that reply's text, and history() after it
\* is history() before it plus the submitted user message and one assistant
\* message with that text.
C9_ReturnsTerminalContent ==
    [][(pc = "returned" /\ HasGet(response) /\ ~HasFunctionCall(response))
       => /\ result' = response.content
          /\ get_messages(log') =
                get_messages(log0) \o <<Msg("user", user_message),
                                        Msg("assistant", response.content)>>]_vars

\* a submit returned content after a detour through a plugin execution
C9_Witness == Idle /\ cause = "content" /\ execs = 1 /\ result = Last(log).content

\* C10: the log is append-only: every step leaves the earlier log as a prefix
\* of the new one, the four seed messages stay its first four entries, and
\* history() is the log without them.
C10_AppendOnly ==
    [][/\ IsPrefix(log, log')
       /\ SubSeq(log', 1, 4) = SeedMessages
       /\ SeedMessages \o get_messages(log') = log'
       /\ SeedMessages \o get_messages(log) = log]_vars

\* two submits were committed to the log
C10_Witness == Idle /\ Len(log) = 8 /\ Len(get_messages(log)) = 4

\* the value the caller holds is a content reply
IsContentReply(value) == HasGet(value) /\ ~HasFunctionCall(value)

\* C11: tool resolution never writes to the log: no step leaves a role=function
\* message in it, every step between the submit and the terminal content
\* reply leaves it unchanged, and an assistant message is appended only by the
\* step that holds a content reply, with that reply's text.
C11_ToolResolutionLeavesLog ==
    [][/\ FunctionMessages(log') = {}
       /\ (pc # "idle" /\ ~(pc = "returned" /\ IsContentReply(response)))
          => log' = log
       /\ (log' # log /\ Last(log').role = "assistant")
          => /\ pc = "returned"
             /\ IsContentReply(response)
             /\ log' = add_message(log, "assistant", response.content)]_vars

\* the reply to a re-issued request is in, after a plugin execution, and the
\* log is still the log of the submit's first request
C11_Witness ==
    /\ pc = "returned"
    /\ frame = "_execute_plugin"
    /\ execs = 1
    /\ log = add_message(log0, "user", user_message)

\* C14: while a completion request is outstanding its functions are the
\* descriptors of all registered plugins, in the registry's order; the first
\* request of a submit carries the log itself, which is the seeds, the earlier
\* messages and the new user message as its last element.
C14_FirstRequestCarriesLog ==
    pc = "request"
    => /\ Len(request.functions) = Len(plugins)
       /\ \A i \in 1..Len(plugins) :
             /\ request.functions[i].name = plugins[i].name
             /\ request.functions[i] = plugin_to_function(plugins[i].plugin)
       /\ frame = "get_chatgpt_response"
          => /\ request.messages = log
             /\ log = log0 \o <<Msg("user", user_message)>>
             /\ SubSeq(log, 1, 4) = SeedMessages

\* the first request of a submit that follows a committed submit
C14_Witness ==
    /\ pc = "request"
    /\ frame = "get_chatgpt_response"
    /\ Len(log0) = Len(SeedMessages) + 2
    /\ Last(log0).role = "assistant"
    /\ Len(request.functions) = 1

\* C17: a re-issued request is exactly the log, which ends with the submit's
\* user message, followed by one role=function message, that of the latest
\* tool call: no earlier tool result and no assistant tool-call reply is in it.
C17_ReissuedRequestShape ==
    (pc = "request" /\ frame = "_execute_plugin")
    => /\ Len(request.messages) = Len(log) + 1
       /\ SubSeq(request.messages, 1, Len(log)) = log
       /\ log = log0 \o <<Msg("user", user_message)>>
       /\ FunctionMessages(request.messages) = {Len(request.messages)}
       /\ Last(request.messages).name = func_call.name

\* the request re-issued for the second tool call of a chain: an unregistered
\* tool first, then an executed plugin
C17_Witness ==
    pc = "request" /\ frame = "_execute_plugin" /\ "unknown" \in errs /\ execs = 1

\* C18: a submit that ended in the degraded-service message left the log grown
\* by the user message alone, so history() ends with a user message, and the
\* first request of the submit after it ends with two user messages.
C18_DegradedSubmitKeepsUserMessage ==
    /\ (Idle /\ cause \in ErrorCauses)
       => /\ result = SomethingWentWrong
          /\ log = log0 \o <<Msg("user", user_message)>>
          /\ Last(get_messages(log)).role = "user"
    /\ (pc = "request" /\ frame = "get_chatgpt_response"
          /\ prevErrs \cap ErrorCauses # {})
       => /\ request.messages[Len(request.messages)].role = "user"
          /\ request.messages[Len(request.messages) - 1].role = "user"
          /\ request.messages[Len(request.messages) - 1] = Last(log0)
          /\ Len(request.messages) > Len(SeedMessages) + 1

\* the first request of a submit that follows a degraded one
C18_Witness ==
    /\ pc = "request"
    /\ frame = "get_chatgpt_response"
    /\ prevErrs \cap ErrorCauses # {}
    /\ Len(get_messages(log)) = 2

\* the tool call being resolved names a registered plugin and its arguments parse
ParseableCall ==
    /\ Registered(plugins, func_call.name)
    /\ ~json_loads(func_call.arguments).raised

\* ... and they parse to a JSON object, which ** can pass as keyword arguments
MappingCall == ParseableCall /\ json_loads(func_call.arguments).isdict

\* C19 as stated: the resolution of a tool call starts one plugin execution
\* when the call names a registered plugin with parseable arguments and none
\* otherwise, and no other step starts one.
C19_ExecutionPerParseableCall ==
    [][/\ pc = "resolve" => execs' = execs + (IF ParseableCall THEN 1 ELSE 0)
       /\ pc \in {"request", "execute"} => execs' = execs
       /\ (pc = "returned" /\ ~HasFunctionCall(response)) => execs' = execs]_vars

\* C19 as amended: the resolution of a tool call starts one plugin execution
\* when the call names a registered plugin and its arguments parse to a JSON
\* object, and none otherwise (an unregistered name, unparseable arguments,
\* arguments that are not an object); a content reply, a failed request and
\* every other step start none.
C19_ExecutionPerMappingCall ==
    [][/\ pc = "resolve" => execs' = execs + (IF MappingCall THEN 1 ELSE 0)
       /\ pc \in {"request", "execute"} => execs' = execs
       /\ (pc = "returned" /\ ~HasFunctionCall(response)) => execs' = execs]_vars

\* a chain of an unregistered tool, which ran nothing, and a plugin that ran once
C19_Witness ==
    pc = "execute" /\ "unknown" \in errs /\ execs = 1

\* the names the registry holds
RegisteredNames(registry) == {registry[i].name : i \in 1..Len(registry)}

\* C13: after every step each registered name is registered once and resolves
\* to the plugin most recently registered under it, and no step of a submit
\* (request, tool resolution, plugin execution, error recovery) changes the
\* registry.
C13_LastRegistrationWins ==
    [][/\ Registered(plugins', get_name(lastReg'))
       /\ Lookup(plugins', get_name(lastReg')) = lastReg'
       /\ Cardinality(RegisteredNames(plugins')) = Len(plugins')
       /\ pc # "idle" => plugins' = plugins
       /\ pc' # "idle" => plugins' = plugins]_vars

\* the plugin registered over the first one is being executed
C13_Witness ==
    /\ pc = "execute"
    /\ lastReg = [class |-> "CallAPIPlugin", id |-> 2]
    /\ Lookup(plugins, func_call.name) = [class |-> "CallAPIPlugin", id |-> 2]

\* C15: the loop is sequential: at most one completion request or plugin
\* execution is outstanding; a plugin execution starts only in the step that
\* resolves a tool-call reply just received; a completion request is issued
\* only when no request and no plugin execution is outstanding any more.
C15_OneOutstandingCall ==
    [][/\ outstanding'.completion + outstanding'.plugin <= 1
       /\ outstanding'.plugin > outstanding.plugin
          => /\ pc = "resolve"
             /\ HasFunctionCall(response)
             /\ response.function_call = func_call
       /\ outstanding'.completion > outstanding.completion
          => /\ outstanding.completion = 0
             /\ outstanding'.plugin = 0
             /\ pc \in {"idle", "resolve", "execute"}]_vars

\* a plugin execution is outstanding, and nothing else
C15_Witness ==
    pc = "execute" /\ outstanding = [completion |-> 0, plugin |-> 1]

\* the method of the arguments is one CallAPIPlugin serves
Supported(kwargs) == "method" \in DOMAIN kwargs /\ kwargs.method \in Methods

\* the value execute makes of an answer of the endpoint, as the claim has it
ContractValue(http) ==
    IF http.status = 200
    THEN <<"dict", "content">> \o json_dumps(http.body)
    ELSE <<"Status code: ", ToString(http.status)>>

\* C16: execute fails without any HTTP request for an unsupported method; for
\* a supported method (given a url, and an endpoint that answers) it sends
\* exactly one request and returns {content: encoded body} on status 200 and a
\* value bearing the status code on every other status.
C16_RestPluginContract ==
    lastExec.ran /\ "url" \in DOMAIN lastExec.kwargs /\ ~lastExec.http.raised
    => IF Supported(lastExec.kwargs)
       THEN /\ lastExec.out.sent = 1
            /\ ~lastExec.out.raised
            /\ lastExec.out.value = ContractValue(lastExec.http)
       ELSE lastExec.out.raised /\ lastExec.out.sent = 0

\* the log a session has when nothing but its own submits has written to it:
\* the log at the start of its last submit, the user message of that submit
\* and, when the submit ended with content, the assistant message it returned
OwnLog(f) ==
    CASE f.cause = "none" -> SeedMessages
      [] f.cause = "content" ->
            f.log0 \o <<Msg("user", f.user_message), Msg("assistant", f.result)>>
      [] OTHER -> f.log0 \o <<Msg("user", f.user_message)>>

\* the log and the registry of the session that waits
OtherLog == lists[history_of(Other(cur))]
OtherRegistry == dicts[registry_of(Other(cur))]

\* both sessions have the log and the registry that their own calls made
AsIfAlone ==
    /\ log = OwnLog(Fields)
    /\ Len(get_messages(log)) = submits + nContent
    /\ Lookup(plugins, "call_rest_api") = lastReg
    /\ OtherLog = OwnLog(parked)
    /\ Len(get_messages(OtherLog)) = parked.submits + parked.nContent
    /\ Lookup(OtherRegistry, "call_rest_api") = parked.lastReg

\* C12: sessions are independent: in any interleaving of the steps of two
\* sessions, a step of one session leaves the log and the registry of the
\* other unchanged, and each session's log is the one its own submits make.
C12_SessionsIndependent ==
    [][/\ cur' = cur => /\ OtherLog' = OtherLog
                        /\ OtherRegistry' = OtherRegistry
                        /\ parked' = parked
       /\ AsIfAlone']_vars

\* the second session has completed a submit through a plugin while the first
\* waits in the middle of its own, and their logs differ
C12_Witness ==
    /\ cur = 2
    /\ Idle /\ cause = "content" /\ execs = 1
    /\ parked.pc = "execute"
    /\ Len(log) = Len(OtherLog) + 1

====
